---- MODULE Spec2Model ----
(***************************************************************************)
(* Model of the Kurb BLE peripheral wrapper (ble_wrapper_stub.py) together  *)
(* with the helper modules battery_engine.py, schedule_engine.py and        *)
(* state_machine.py.  The logic simulator the wrapper drives                *)
(* (kurb_logic.KurbSimulator) and the attribute identifiers                 *)
(* (ble_constants) are imported by the wrapper but are not part of the      *)
(* sources at hand; they are modelled from the written specification and    *)
(* the definitions concerned say so.                                        *)
(*                                                                          *)
(* Payloads are sequences of integers.  A byte is an element of 0..255.     *)
(* The JSON text of a schedule is abstracted to the sequence of the values  *)
(* it carries (layout, limit, then start/end of every window), and its      *)
(* length in bytes is computed by RawLen as json.dumps lays the text out.   *)
(***************************************************************************)
EXTENDS Integers, Sequences, FiniteSets, TLC

VARIABLES
    sim,            \* the simulator's fields (self.sim)
    notifications,  \* what the last handler passed to send_notification, in order
    events,         \* the events the state machine emitted in the last handler
    raised,         \* the exception the last handler raised to its caller
    last_op,        \* the last request: its kind, attribute and payload
    read_result,    \* the payload the last read returned
    granted,        \* Unlocked events seen since the clock entered today (observer)
    inbox,          \* requests handed to the transport and not yet dispatched
    history,        \* the requests dispatched from the inbox, with their outcomes
    input,          \* the arguments a helper function is called with on its own
    output          \* what that call returned (<< >> before the call)

vars == <<sim, notifications, events, raised, last_op, read_result, granted,
          inbox, history, input, output>>

(***************************************************************************)
(* Bounds of the model.                                                     *)
(***************************************************************************)
MaxDay == 1          \* days 0..MaxDay are visited by the clock
MaxLimit == 2        \* daily limits 0..MaxLimit are written
MaxQueue == 2        \* requests waiting in the transport's queue
MaxHandled == 3      \* requests that arrive in a run of the queued transport
MaxPercent == 100    \* battery percentages 0..MaxPercent are classified
MaxWindows == 3      \* window lists of up to MaxWindows entries are evaluated

(***************************************************************************)
(* Attribute identifiers (ble_constants, imported by the wrapper).          *)
(***************************************************************************)
CHAR_LOCK_STATE == "CHAR_LOCK_STATE"
CHAR_LOCK_COMMAND == "CHAR_LOCK_COMMAND"
CHAR_SCHEDULE == "CHAR_SCHEDULE"
CHAR_TIMESYNC == "CHAR_TIMESYNC"
CHAR_BATTERY == "CHAR_BATTERY"
CHAR_NEXT_UNLOCK == "CHAR_NEXT_UNLOCK"
CHAR_EVENT == "CHAR_EVENT"
CHAR_UNKNOWN == "CHAR_UNKNOWN"   \* any identifier that is none of the above

Attributes == {CHAR_LOCK_STATE, CHAR_LOCK_COMMAND, CHAR_SCHEDULE, CHAR_TIMESYNC,
               CHAR_BATTERY, CHAR_NEXT_UNLOCK, CHAR_EVENT, CHAR_UNKNOWN}

(***************************************************************************)
(* Command bytes of the lock-command attribute and event codes.             *)
(***************************************************************************)
CMD_UNLOCK == 2
CMD_FORCE_UNLOCK == 16
CMD_RESET == 32

EV_UNLOCKED == 1
EV_LOCKED == 2
EV_FORCE_UNLOCKED == 9
EV_UNLOCK_DENIED == 3
EV_BATTERY_BASE == 48

ByteLimit == 256     \* bytes([n]) accepts n in range(0, 256)

(***************************************************************************)
(* state_machine.py                                                         *)
(***************************************************************************)
is_locked(state) == state = 1

is_unlocked(state) == state = 0

\* The stored values of the two lock states, as the predicates recognise them.
LOCKED == 1
UNLOCKED == 0

(***************************************************************************)
(* battery_engine.py                                                        *)
(***************************************************************************)
\* Variant of classify_battery that tests the widest boundary first, so the
\* narrower ones are never reached.
classify_battery_unordered(percent) ==
    IF percent <= 20 THEN "low"
    ELSE IF percent <= 10 THEN "critical"
    ELSE IF percent <= 3 THEN "emergency"
    ELSE "normal"

\* Variant of classify_battery whose boundaries are exclusive.
classify_battery_exclusive(percent) ==
    IF percent < 3 THEN "emergency"
    ELSE IF percent < 10 THEN "critical"
    ELSE IF percent < 20 THEN "low"
    ELSE "normal"

classify_battery(percent) ==
    IF percent <= 3 THEN "emergency"
    ELSE IF percent <= 10 THEN "critical"
    ELSE IF percent <= 20 THEN "low"
    ELSE "normal"

(***************************************************************************)
(* schedule_engine.py                                                       *)
(***************************************************************************)
parse_daily_limit_plus_one(schedule_json) == schedule_json.daily_limit.max_unlocks + 1

parse_daily_limit(schedule_json) == schedule_json.daily_limit.max_unlocks

parse_time_windows_none(schedule_json) == << >>

\* Variant of parse_time_windows that keeps the first window only.
parse_time_windows_first(schedule_json) ==
    IF Len(schedule_json.windows) = 0 THEN << >> ELSE <<schedule_json.windows[1]>>

parse_time_windows(schedule_json) == schedule_json.windows

(***************************************************************************)
(* kurb_logic.KurbSimulator: the lock state machine and its schedule        *)
(* evaluator.  The wrapper reads its fields lock_state, battery and         *)
(* schedule and calls its on_write.                                         *)
(***************************************************************************)
\* sim.schedule before any schedule was written (falsy in on_read).
NoSchedule == [daily_limit |-> [max_unlocks |-> 0 - 1], windows |-> << >>]

\* Length of a calendar day in timestamp units (the clock's resolution).
TicksPerDay == 2

DayOf(t) == t \div TicksPerDay
TimeOfDay(t) == t % TicksPerDay
MaxTime == (MaxDay + 1) * TicksPerDay - 1

InWindow(w, tod) == w.start <= tod /\ tod < w.end

is_within_window(s, now) ==
    IF s.schedule = NoSchedule THEN TRUE
    ELSE LET ws == parse_time_windows(s.schedule) IN
         Len(ws) = 0 \/ \E i \in 1..Len(ws) : InWindow(ws[i], TimeOfDay(now))

\* Today's unlock counter: the stored counter, rolled to zero on a new day.
today_count(s, now) == IF s.count_day = DayOf(now) THEN s.unlock_count ELSE 0

has_quota(s, now) ==
    /\ s.schedule # NoSchedule
    /\ today_count(s, now) < parse_daily_limit(s.schedule)

record_unlock(s, now) ==
    [s EXCEPT !.unlock_count = today_count(s, now) + 1, !.count_day = DayOf(now)]

replace_schedule(s, new_schedule) == [s EXCEPT !.schedule = new_schedule]

(***************************************************************************)
(* Wire format of a schedule.  The JSON text                                *)
(*   {"daily_limit": {"max_unlocks": N}, "windows": [{"start": "HH:MM",     *)
(*    "end": "HH:MM"}, ...]}                                                *)
(* is the sequence <<style, N, start1, end1, ...>>: style 0 is the layout   *)
(* of json.dumps (", " and ": "), style 1 the same text without the spaces, *)
(* which a peer may write and json.loads reads alike.                       *)
(***************************************************************************)
Digits(n) == IF n < 10 THEN 1 ELSE IF n < 100 THEN 2 ELSE 3

\* Bytes of the text of a schedule with limit `limit` and n windows.
TextLen(style, limit, n) ==
    IF style = 0
    THEN 49 + Digits(limit) + (IF n = 0 THEN 0 ELSE 36 * n - 2)
    ELSE 45 + Digits(limit) + (IF n = 0 THEN 0 ELSE 32 * n - 1)

RawLen(raw) == TextLen(raw[1], raw[2], (Len(raw) - 2) \div 2)

RECURSIVE FlattenWindows(_)
FlattenWindows(ws) ==
    IF Len(ws) = 0 THEN << >>
    ELSE <<ws[1].start, ws[1].end>> \o FlattenWindows(Tail(ws))

json_dumps(schedule) ==
    <<0, schedule.daily_limit.max_unlocks>> \o FlattenWindows(schedule.windows)

WellFormedText(raw) ==
    /\ Len(raw) >= 2
    /\ (Len(raw) - 2) % 2 = 0
    /\ raw[1] \in {0, 1}
    /\ raw[2] >= 0

json_loads(raw) ==
    [daily_limit |-> [max_unlocks |-> raw[2]],
     windows |-> [i \in 1..((Len(raw) - 2) \div 2) |->
                    [start |-> raw[2 * i + 1], end |-> raw[2 * i + 2]]]]

InByteRange(n) == 0 <= n /\ n < ByteLimit

\* Decoder of a schedule write: one length byte, then that many bytes of text.
DecodableSchedule(data) ==
    /\ Len(data) >= 1
    /\ WellFormedText(Tail(data))
    /\ data[1] = RawLen(Tail(data))

decode_schedule(data) == json_loads(Tail(data))

\* Decoder of a time-sync write: a timestamp of TS_WIDTH bytes, low byte first.
TS_WIDTH == 4

DecodableTime(data) == Len(data) = TS_WIDTH /\ \A i \in 1..Len(data) : InByteRange(data[i])

RECURSIVE decode_time(_)
decode_time(data) ==
    IF Len(data) = 0 THEN 0 ELSE data[1] + ByteLimit * decode_time(Tail(data))

DecodableCommand(data) ==
    Len(data) = 1 /\ data[1] \in {CMD_UNLOCK, CMD_FORCE_UNLOCK, CMD_RESET}

(***************************************************************************)
(* The state machine's transitions: each yields the simulator's new state   *)
(* and the events it emits, in order.                                       *)
(***************************************************************************)
Outcome(s, evs) == [sim |-> s, events |-> evs]

unlock(s) ==
    IF is_unlocked(s.lock_state) THEN Outcome(s, << >>)
    ELSE IF is_within_window(s, s.now) /\ has_quota(s, s.now)
    THEN Outcome([record_unlock(s, s.now) EXCEPT !.lock_state = UNLOCKED],
                 <<EV_UNLOCKED>>)
    ELSE Outcome(s, <<EV_UNLOCK_DENIED>>)

force_unlock(s) == Outcome([s EXCEPT !.lock_state = UNLOCKED], <<EV_FORCE_UNLOCKED>>)

reset(s) == Outcome([s EXCEPT !.lock_state = LOCKED], <<EV_LOCKED>>)

set_time(s, t) == Outcome([s EXCEPT !.now = t], << >>)

TierIndex(tier) ==
    CASE tier = "normal" -> 0
      [] tier = "low" -> 1
      [] tier = "critical" -> 2
      [] tier = "emergency" -> 3

set_battery(s, level) ==
    Outcome([s EXCEPT !.battery = level],
            IF classify_battery(level) # classify_battery(s.battery)
            THEN <<EV_BATTERY_BASE + TierIndex(classify_battery(level))>>
            ELSE << >>)

\* KurbSimulator.on_write(uuid, data): decode, then run the command.  A
\* payload that does not decode, or an unknown attribute, is dropped.
sim_on_write(s, uuid, data) ==
    IF uuid = CHAR_LOCK_COMMAND /\ DecodableCommand(data)
    THEN CASE data[1] = CMD_UNLOCK -> unlock(s)
           [] data[1] = CMD_FORCE_UNLOCK -> force_unlock(s)
           [] data[1] = CMD_RESET -> reset(s)
    ELSE IF uuid = CHAR_SCHEDULE /\ DecodableSchedule(data)
    THEN Outcome(replace_schedule(s, decode_schedule(data)), << >>)
    ELSE IF uuid = CHAR_TIMESYNC /\ DecodableTime(data)
    THEN set_time(s, decode_time(data))
    ELSE Outcome(s, << >>)

(***************************************************************************)
(* KurbBLEPeripheral (ble_wrapper_stub.py).  A handler yields the           *)
(* simulator's new state, the events emitted, the notifications attempted   *)
(* and the exception raised to the caller ("none" when it returns).         *)
(***************************************************************************)
Result(s, evs, notes, exc) ==
    [sim |-> s, events |-> evs, notifications |-> notes, raised |-> exc]

\* One attempt to notify.  The body in the stub is the placeholder of the
\* OS-specific transport; what the core contributes is the attempt, with
\* its attribute and payload.
send_notification(uuid, data) == <<[uuid |-> uuid, data |-> data]>>

\* Variant of on_logic_event that updates the lock-state attribute before it
\* logs the event.
on_logic_event_state_first(s, event_code) ==
    (IF event_code \in {1, 2, 9}
     THEN send_notification(CHAR_LOCK_STATE, <<s.lock_state>>)
     ELSE << >>)
    \o send_notification(CHAR_EVENT, <<event_code>>)

\* Variant of on_logic_event that returns early for an event outside the
\* lock/unlock family.
on_logic_event_family_only(s, event_code) ==
    IF event_code \in {1, 2, 9}
    THEN send_notification(CHAR_EVENT, <<event_code>>)
         \o send_notification(CHAR_LOCK_STATE, <<s.lock_state>>)
    ELSE << >>

on_logic_event(s, event_code) ==
    send_notification(CHAR_EVENT, <<event_code>>)
    \o (IF event_code \in {1, 2, 9}
        THEN send_notification(CHAR_LOCK_STATE, <<s.lock_state>>)
        ELSE << >>)

\* The simulator hands every event it emits to on_logic_event, in order.
RECURSIVE notify_events(_, _)
notify_events(s, evs) ==
    IF Len(evs) = 0 THEN << >>
    ELSE on_logic_event(s, evs[1]) \o notify_events(s, Tail(evs))

\* Variants of on_write_lock_command with one slip each: the push left out,
\* the payload forwarded under the wrong attribute, the pushed state read
\* before the command is forwarded.
on_write_lock_command_no_push(s, data) ==
    IF Len(data) = 0
    THEN Result(s, << >>, << >>, "IndexError")
    ELSE LET r == sim_on_write(s, CHAR_LOCK_COMMAND, data) IN
         Result(r.sim, r.events, notify_events(r.sim, r.events), "none")

on_write_lock_command_wrong_attr(s, data) ==
    IF Len(data) = 0
    THEN Result(s, << >>, << >>, "IndexError")
    ELSE LET r == sim_on_write(s, CHAR_SCHEDULE, data) IN
         Result(r.sim, r.events,
                notify_events(r.sim, r.events)
                \o send_notification(CHAR_LOCK_STATE, <<r.sim.lock_state>>),
                "none")

on_write_lock_command_stale_push(s, data) ==
    IF Len(data) = 0
    THEN Result(s, << >>, << >>, "IndexError")
    ELSE LET r == sim_on_write(s, CHAR_LOCK_COMMAND, data) IN
         Result(r.sim, r.events,
                notify_events(r.sim, r.events)
                \o send_notification(CHAR_LOCK_STATE, <<s.lock_state>>),
                "none")

\* Variant of on_write_lock_command that treats 0x20 as an unlink of the
\* peer and does not forward it to the simulator.
on_write_lock_command_reset_unforwarded(s, data) ==
    IF Len(data) = 0
    THEN Result(s, << >>, << >>, "IndexError")
    ELSE LET r == IF data[1] = CMD_RESET THEN Outcome(s, << >>)
                  ELSE sim_on_write(s, CHAR_LOCK_COMMAND, data)
         IN  Result(r.sim, r.events,
                    notify_events(r.sim, r.events)
                    \o send_notification(CHAR_LOCK_STATE, <<r.sim.lock_state>>),
                    "none")

\* Variant of on_write_lock_command that pushes the lock state first and
\* forwards the command afterwards.
on_write_lock_command_push_first(s, data) ==
    IF Len(data) = 0
    THEN Result(s, << >>, << >>, "IndexError")
    ELSE LET r == sim_on_write(s, CHAR_LOCK_COMMAND, data) IN
         Result(r.sim, r.events,
                send_notification(CHAR_LOCK_STATE, <<s.lock_state>>)
                \o notify_events(r.sim, r.events),
                "none")

on_write_lock_command(s, data) ==
    IF Len(data) = 0
    THEN Result(s, << >>, << >>, "IndexError")            \* cmd = data[0]
    ELSE LET r == sim_on_write(s, CHAR_LOCK_COMMAND, data) IN
         Result(r.sim, r.events,
                notify_events(r.sim, r.events)
                \o send_notification(CHAR_LOCK_STATE, <<r.sim.lock_state>>),
                "none")

\* Variant of on_write_schedule that pushes the lock state after forwarding,
\* as on_write_lock_command does.
on_write_schedule_with_push(s, data) ==
    LET r == sim_on_write(s, CHAR_SCHEDULE, data) IN
    Result(r.sim, r.events,
           notify_events(r.sim, r.events)
           \o send_notification(CHAR_LOCK_STATE, <<r.sim.lock_state>>),
           "none")

on_write_schedule(s, data) ==
    LET r == sim_on_write(s, CHAR_SCHEDULE, data) IN
    Result(r.sim, r.events, notify_events(r.sim, r.events), "none")

\* Variant of on_write_timesync that never forwards the write.
on_write_timesync_dropped(s, data) == Result(s, << >>, << >>, "none")

on_write_timesync(s, data) ==
    LET r == sim_on_write(s, CHAR_TIMESYNC, data) IN
    Result(r.sim, r.events, notify_events(r.sim, r.events), "none")

\* The dispatch of an inbound write to the handler registered for its attribute.
handle_write(s, uuid, data) ==
    IF uuid = CHAR_LOCK_COMMAND THEN on_write_lock_command(s, data)
    ELSE IF uuid = CHAR_SCHEDULE THEN on_write_schedule(s, data)
    ELSE IF uuid = CHAR_TIMESYNC THEN on_write_timesync(s, data)
    ELSE Result(s, << >>, << >>, "none")

\* The battery driver's update, and the notifications of the events it causes.
battery_update(s, level) ==
    LET r == set_battery(s, level) IN
    Result(r.sim, r.events, notify_events(r.sim, r.events), "none")

ReadResult(value, exc) == [value |-> value, raised |-> exc]

\* bytes([n]): one byte, or ValueError when n is not in range(0, 256).
bytes1(n) ==
    IF InByteRange(n) THEN ReadResult(<<n>>, "none") ELSE ReadResult(<< >>, "ValueError")

\* Variant of on_read that answers the battery level from the value stored
\* at construction (char_values) instead of the simulator's current field.
on_read_battery_cached(s, uuid) ==
    IF uuid = CHAR_LOCK_STATE THEN bytes1(s.lock_state)
    ELSE IF uuid = CHAR_BATTERY THEN bytes1(100)
    ELSE IF uuid = CHAR_NEXT_UNLOCK THEN ReadResult(<<0, 0, 0, 0>>, "none")
    ELSE bytes1(0)

\* Variant of on_read that answers the lock state from the value stored at
\* construction (char_values) instead of the simulator's current field.
on_read_cached(s, uuid) ==
    IF uuid = CHAR_LOCK_STATE THEN bytes1(LOCKED)
    ELSE IF uuid = CHAR_BATTERY THEN bytes1(s.battery)
    ELSE IF uuid = CHAR_NEXT_UNLOCK THEN ReadResult(<<0, 0, 0, 0>>, "none")
    ELSE bytes1(0)

on_read(s, uuid) ==
    IF uuid = CHAR_LOCK_STATE THEN bytes1(s.lock_state)
    ELSE IF uuid = CHAR_BATTERY THEN bytes1(s.battery)
    ELSE IF uuid = CHAR_NEXT_UNLOCK THEN ReadResult(<<0, 0, 0, 0>>, "none")
    ELSE IF uuid = CHAR_SCHEDULE
    THEN IF s.schedule # NoSchedule
         THEN LET raw == json_dumps(s.schedule)
                  length == RawLen(raw)
                  head == bytes1(length)
              IN  IF head.raised = "none"
                  THEN ReadResult(head.value \o raw, "none")
                  ELSE head
         ELSE bytes1(0)
    ELSE bytes1(0)

(***************************************************************************)
(* The requests the environment makes.                                      *)
(***************************************************************************)
AlwaysOpen == [start |-> 0, end |-> TicksPerDay]
Midday == [start |-> 1, end |-> 2]
WindowSet == {AlwaysOpen, Midday}

\* The least number of windows whose text fits the length byte when written
\* without spaces and no longer fits it as json.dumps lays it out.
OverflowWindows ==
    CHOOSE n \in 1..16 : InByteRange(TextLen(1, 1, n)) /\ ~InByteRange(TextLen(0, 1, n))

LongWindows == [i \in 1..OverflowWindows |-> AlwaysOpen]

WindowLists ==
    {<< >>, <<AlwaysOpen>>, <<Midday>>, <<Midday, AlwaysOpen>>, LongWindows}

Schedules ==
    {[daily_limit |-> [max_unlocks |-> n], windows |-> ws] :
        n \in 0..MaxLimit, ws \in WindowLists}

\* A schedule as a peer writes it: the length byte, then the text in `style`.
WireSchedule(style, schedule) ==
    LET raw == <<style>> \o Tail(json_dumps(schedule)) IN <<RawLen(raw)>> \o raw

\* Short schedules in the layout of json.dumps, the long ones without spaces;
\* an empty payload and a lone zero length byte do not decode.
SchedulePayloads ==
    {WireSchedule(0, s) : s \in {x \in Schedules : x.windows # LongWindows}}
    \cup {WireSchedule(1, s) : s \in {x \in Schedules : x.windows = LongWindows}}
    \cup {<< >>, <<0>>}

LockPayloads ==
    {<< >>, <<CMD_UNLOCK>>, <<CMD_FORCE_UNLOCK>>, <<CMD_RESET>>, <<85>>,
     <<CMD_UNLOCK, CMD_UNLOCK>>}

TimePayloads == {<<t, 0, 0, 0>> : t \in 0..MaxTime} \cup {<< >>, <<1>>}

BatteryLevels == {10, 100}

Op(kind, uuid, data) == [kind |-> kind, uuid |-> uuid, data |-> data]

CountOf(evs, code) == Cardinality({i \in 1..Len(evs) : evs[i] = code})

(***************************************************************************)
(* Initial state: KurbBLEPeripheral.__init__ with a fresh simulator.        *)
(***************************************************************************)
Constructed ==
    /\ sim = [lock_state |-> LOCKED, battery |-> 100, schedule |-> NoSchedule,
              now |-> 0, unlock_count |-> 0, count_day |-> 0]
    /\ notifications = << >>
    /\ events = << >>
    /\ raised = "none"
    /\ last_op = Op("init", CHAR_UNKNOWN, << >>)
    /\ read_result = << >>
    /\ granted = 0
    /\ inbox = << >>
    /\ history = << >>

Init ==
    /\ Constructed
    /\ input = << >>
    /\ output = << >>

\* The effect of a handler that ran to completion on the request `op`.
Apply(op, r) ==
    /\ sim' = r.sim
    /\ events' = r.events
    /\ notifications' = r.notifications
    /\ raised' = r.raised
    /\ last_op' = op
    /\ read_result' = << >>
    /\ granted' = (IF DayOf(r.sim.now) = DayOf(sim.now) THEN granted ELSE 0)
                  + CountOf(r.events, EV_UNLOCKED)
    /\ UNCHANGED <<input, output>>

WriteLockCommand ==
    \E data \in LockPayloads :
        /\ Apply(Op("write", CHAR_LOCK_COMMAND, data),
                 handle_write(sim, CHAR_LOCK_COMMAND, data))
        /\ UNCHANGED <<inbox, history>>

WriteSchedule ==
    \E data \in SchedulePayloads :
        /\ Apply(Op("write", CHAR_SCHEDULE, data), handle_write(sim, CHAR_SCHEDULE, data))
        /\ UNCHANGED <<inbox, history>>

\* The peer's time syncs advance the clock; none sets it back.
WriteTimesync ==
    \E data \in TimePayloads :
        /\ DecodableTime(data) => decode_time(data) >= sim.now
        /\ Apply(Op("write", CHAR_TIMESYNC, data), handle_write(sim, CHAR_TIMESYNC, data))
        /\ UNCHANGED <<inbox, history>>

WriteUnknown ==
    \E data \in {<< >>, <<CMD_UNLOCK>>} :
        /\ Apply(Op("write", CHAR_UNKNOWN, data), handle_write(sim, CHAR_UNKNOWN, data))
        /\ UNCHANGED <<inbox, history>>

BatteryUpdate ==
    \E level \in BatteryLevels :
        /\ Apply(Op("battery", CHAR_BATTERY, <<level>>), battery_update(sim, level))
        /\ UNCHANGED <<inbox, history>>

\* CHAR_TIMESYNC and CHAR_EVENT take the same branch of on_read as
\* CHAR_LOCK_COMMAND and CHAR_UNKNOWN.
ReadAttributes ==
    {CHAR_LOCK_STATE, CHAR_BATTERY, CHAR_NEXT_UNLOCK, CHAR_SCHEDULE,
     CHAR_LOCK_COMMAND, CHAR_UNKNOWN}

Read ==
    \E uuid \in ReadAttributes :
        LET r == on_read(sim, uuid) IN
        /\ read_result' = r.value
        /\ raised' = r.raised
        /\ last_op' = Op("read", uuid, << >>)
        /\ notifications' = << >>
        /\ events' = << >>
        /\ UNCHANGED <<sim, granted, inbox, history, input, output>>

Next ==
    \/ WriteLockCommand
    \/ WriteSchedule
    \/ WriteTimesync
    \/ WriteUnknown
    \/ BatteryUpdate
    \/ Read

Spec == Init /\ [][Next]_vars

(***************************************************************************)
(* The transport with its queue: requests arrive from the peer and the      *)
(* battery driver at any time and are handed to the core one at a time, in  *)
(* arrival order, each handler running to completion.                       *)
(***************************************************************************)
QueueOps ==
    {Op("write", CHAR_LOCK_COMMAND, <<CMD_UNLOCK>>),
     Op("write", CHAR_LOCK_COMMAND, <<CMD_FORCE_UNLOCK>>),
     Op("write", CHAR_LOCK_COMMAND, <<CMD_RESET>>),
     Op("write", CHAR_LOCK_COMMAND, <<85>>),
     Op("write", CHAR_SCHEDULE,
        WireSchedule(0, [daily_limit |-> [max_unlocks |-> 1], windows |-> << >>])),
     Op("battery", CHAR_BATTERY, <<10>>)}

Handle(s, op) ==
    IF op.kind = "battery" THEN battery_update(s, op.data[1])
    ELSE handle_write(s, op.uuid, op.data)

Arrive ==
    \E op \in QueueOps :
        /\ Len(inbox) < MaxQueue
        /\ Len(history) + Len(inbox) < MaxHandled
        /\ inbox' = Append(inbox, op)
        /\ UNCHANGED <<sim, notifications, events, raised, last_op, read_result,
                       granted, history, input, output>>

Dispatch ==
    /\ inbox # << >>
    /\ LET op == Head(inbox)
           r == Handle(sim, op)
       IN  /\ Apply(op, r)
           /\ history' = Append(history,
                  [op |-> op, events |-> r.events, notifications |-> r.notifications,
                   lock_state |-> r.sim.lock_state])
    /\ inbox' = Tail(inbox)

NextQ == Arrive \/ Dispatch

SpecQ == Init /\ [][NextQ]_vars

(***************************************************************************)
(* The battery driver reporting any percentage, between lock commands.      *)
(***************************************************************************)
BatteryReport ==
    \E level \in 0..MaxPercent :
        /\ Apply(Op("battery", CHAR_BATTERY, <<level>>), battery_update(sim, level))
        /\ UNCHANGED <<inbox, history>>

NextBattery == BatteryReport \/ WriteLockCommand

SpecBattery == Init /\ [][NextBattery]_vars

(***************************************************************************)
(* The helper functions called on their own.  The peripheral stays as       *)
(* constructed; a call takes its arguments from `input` and leaves what it  *)
(* returned in `output`.                                                    *)
(***************************************************************************)
Idle ==
    UNCHANGED <<sim, notifications, events, raised, last_op, read_result, granted,
                inbox, history>>

\* classify_battery on a pair of percentages, the first not above the second.
InitClassify ==
    /\ Constructed
    /\ input \in {<<p, q>> : p \in 0..MaxPercent, q \in 0..MaxPercent}
    /\ input[1] <= input[2]
    /\ output = << >>

Classify ==
    /\ output = << >>
    /\ output' = <<classify_battery(input[1]), classify_battery(input[2])>>
    /\ UNCHANGED input
    /\ Idle

NextClassify == Classify

SpecClassify == InitClassify /\ [][NextClassify]_vars

\* is_within_window on any list of windows, in any order and with repeats,
\* at any time of the clock.
Morning == [start |-> 0, end |-> 1]
ProbeWindows == {Morning, Midday, AlwaysOpen}
ProbeLists == UNION {[1..k -> ProbeWindows] : k \in 0..MaxWindows}
ProbeSchedule(ws) == [daily_limit |-> [max_unlocks |-> 1], windows |-> ws]

InitWindows ==
    /\ Constructed
    /\ input \in {<<ws, now>> : ws \in ProbeLists, now \in 0..MaxTime}
    /\ output = << >>

Evaluate ==
    /\ output = << >>
    /\ output' = <<is_within_window([schedule |-> ProbeSchedule(input[1])], input[2])>>
    /\ UNCHANGED input
    /\ Idle

NextWindows == Evaluate

SpecWindows == InitWindows /\ [][NextWindows]_vars

(***************************************************************************)
(* Vocabulary of the properties.  These restate the schedule's meaning from *)
(* the stored schedule itself, without the evaluator's operators.           *)
(***************************************************************************)
UnlockOp == Op("write", CHAR_LOCK_COMMAND, <<CMD_UNLOCK>>)
ForceUnlockOp == Op("write", CHAR_LOCK_COMMAND, <<CMD_FORCE_UNLOCK>>)
ResetOp == Op("write", CHAR_LOCK_COMMAND, <<CMD_RESET>>)

LimitOf(s) == s.schedule.daily_limit.max_unlocks

\* tod lies in the union of the windows of s (any time when there are none).
InUnion(s, tod) ==
    \/ s.schedule.windows = << >>
    \/ \E i \in DOMAIN s.schedule.windows :
          s.schedule.windows[i].start <= tod /\ tod < s.schedule.windows[i].end

AlwaysOpenSchedule(s) ==
    s.schedule # NoSchedule /\ \A tod \in 0..(TicksPerDay - 1) : InUnion(s, tod)

\* The unlock counter of the day of the clock.
CounterToday(s) == IF s.count_day = s.now \div TicksPerDay THEN s.unlock_count ELSE 0

(***************************************************************************)
(* C1.  Within one calendar day, under a schedule with daily limit N and    *)
(* always-open windows, an Unlock issued while Locked succeeds exactly when *)
(* fewer than N Unlocked events were granted that day; otherwise it is      *)
(* denied with UnlockDenied (always, when N = 0); and a granted Unlock      *)
(* never leaves today's counter above the limit.                            *)
(***************************************************************************)
C1_Step ==
    (last_op' = UnlockOp /\ is_locked(sim.lock_state) /\ AlwaysOpenSchedule(sim))
    => /\ is_unlocked(sim'.lock_state) <=> granted < LimitOf(sim)
       /\ granted < LimitOf(sim) => events' = <<EV_UNLOCKED>> /\ granted' = granted + 1
       /\ granted >= LimitOf(sim) => events' = <<EV_UNLOCK_DENIED>> /\ granted' = granted
       /\ is_unlocked(sim'.lock_state) => CounterToday(sim') <= LimitOf(sim')

C1_QuotaInvariant == [][C1_Step]_vars

\* The (N+1)th Unlock of the day, N >= 1, was just denied.
C1_Witness ==
    /\ last_op = UnlockOp
    /\ AlwaysOpenSchedule(sim)
    /\ LimitOf(sim) >= 1
    /\ granted = LimitOf(sim)
    /\ events = <<EV_UNLOCK_DENIED>>
    /\ is_locked(sim.lock_state)

(***************************************************************************)
(* C2.  An Unlock received while Locked leads to Unlocked only if the time  *)
(* of day is inside the union of the windows and today's counter is below   *)
(* the limit; otherwise the lock stays Locked, today's counter is           *)
(* unchanged and exactly one UnlockDenied event is emitted.                 *)
(***************************************************************************)
Permitted(s) ==
    /\ s.schedule # NoSchedule
    /\ InUnion(s, s.now % TicksPerDay)
    /\ CounterToday(s) < LimitOf(s)

C2_Step ==
    (last_op' = UnlockOp /\ is_locked(sim.lock_state))
    => /\ is_unlocked(sim'.lock_state) => Permitted(sim)
       /\ ~Permitted(sim) =>
             /\ is_locked(sim'.lock_state)
             /\ CounterToday(sim') = CounterToday(sim)
             /\ sim'.unlock_count = sim.unlock_count
             /\ events' = <<EV_UNLOCK_DENIED>>

C2_UnlockOnlyWhenPermitted == [][C2_Step]_vars

\* An Unlock was denied outside every window although quota was left.
C2_Witness ==
    /\ last_op = UnlockOp
    /\ events = <<EV_UNLOCK_DENIED>>
    /\ is_locked(sim.lock_state)
    /\ sim.schedule # NoSchedule
    /\ CounterToday(sim) < LimitOf(sim)
    /\ ~InUnion(sim, sim.now % TicksPerDay)

(***************************************************************************)
(* C3.  A rejected write (unknown attribute, or a payload that does not     *)
(* decode, such as a zero-length lock command) raises no error to the       *)
(* caller, leaves lock state, battery, schedule and unlock counter          *)
(* unchanged and produces no notification.                                  *)
(***************************************************************************)
RejectedWrite(op) ==
    /\ op.kind = "write"
    /\ \/ op.uuid \notin {CHAR_LOCK_COMMAND, CHAR_SCHEDULE, CHAR_TIMESYNC}
       \/ op.uuid = CHAR_LOCK_COMMAND /\ ~DecodableCommand(op.data)
       \/ op.uuid = CHAR_SCHEDULE /\ ~DecodableSchedule(op.data)
       \/ op.uuid = CHAR_TIMESYNC /\ ~DecodableTime(op.data)

C3_Step ==
    RejectedWrite(last_op')
    => /\ raised' = "none"
       /\ sim' = sim
       /\ notifications' = << >>

C3_RejectedWriteSilent == [][C3_Step]_vars

(***************************************************************************)
(* C4 as stated.  Unlock while already Unlocked is a no-op: state and       *)
(* counter unchanged, no event, and no notification.                        *)
(***************************************************************************)
C4_Original_Step ==
    (last_op' = UnlockOp /\ is_unlocked(sim.lock_state))
    => /\ sim' = sim
       /\ events' = << >>
       /\ notifications' = << >>

C4_Original == [][C4_Original_Step]_vars

(***************************************************************************)
(* C4 amended.  Unlock while already Unlocked leaves the simulator's state  *)
(* (lock state, counter, schedule, battery) unchanged and emits no event;   *)
(* the wrapper still pushes exactly one lock-state notification, carrying   *)
(* the unchanged state.                                                     *)
(***************************************************************************)
C4_Step ==
    (last_op' = UnlockOp /\ is_unlocked(sim.lock_state))
    => /\ sim' = sim
       /\ granted' = granted
       /\ events' = << >>
       /\ raised' = "none"
       /\ notifications' = <<[uuid |-> CHAR_LOCK_STATE, data |-> <<sim.lock_state>>]>>

C4_UnlockIdempotent == [][C4_Step]_vars

\* A second Unlock has just been handled in state Unlocked after a granted one.
C4_Witness ==
    /\ last_op = UnlockOp
    /\ is_unlocked(sim.lock_state)
    /\ events = << >>
    /\ granted >= 1
    /\ Len(notifications) = 1

(***************************************************************************)
(* C5.  ForceUnlock, in any state and under any schedule, window and quota  *)
(* condition, leaves the lock Unlocked, emits ForceUnlocked, and leaves     *)
(* today's counter, and with it the unlocks still permitted today,          *)
(* unchanged.                                                               *)
(***************************************************************************)
Remaining(s) ==
    IF s.schedule = NoSchedule \/ LimitOf(s) <= CounterToday(s) THEN 0
    ELSE LimitOf(s) - CounterToday(s)

C5_Step ==
    last_op' = ForceUnlockOp
    => /\ is_unlocked(sim'.lock_state)
       /\ events' = <<EV_FORCE_UNLOCKED>>
       /\ sim'.unlock_count = sim.unlock_count
       /\ sim'.count_day = sim.count_day
       /\ CounterToday(sim') = CounterToday(sim)
       /\ Remaining(sim') = Remaining(sim)
       /\ granted' = granted
       /\ sim'.schedule = sim.schedule

C5_ForceUnlock == [][C5_Step]_vars

\* ForceUnlock succeeded although the quota was used up and the time is
\* outside every window.
C5_Witness ==
    /\ last_op = ForceUnlockOp
    /\ is_unlocked(sim.lock_state)
    /\ events = <<EV_FORCE_UNLOCKED>>
    /\ sim.schedule # NoSchedule
    /\ LimitOf(sim) >= 1
    /\ CounterToday(sim) = LimitOf(sim)
    /\ ~InUnion(sim, sim.now % TicksPerDay)

(***************************************************************************)
(* C6.  A time sync that moves the clock past the day boundary sets the     *)
(* clock and leaves today's counter at zero; and an Unlock issued while     *)
(* Locked, inside a window, on a day later than the day of an exhausted     *)
(* counter succeeds and leaves the new day's counter at one.                *)
(***************************************************************************)
C6_Step ==
    /\ ( /\ last_op'.kind = "write" /\ last_op'.uuid = CHAR_TIMESYNC
         /\ DecodableTime(last_op'.data)
         /\ decode_time(last_op'.data) \div TicksPerDay > sim.now \div TicksPerDay )
       => /\ sim'.now = decode_time(last_op'.data)
          /\ CounterToday(sim') = 0
          /\ granted' = 0
          /\ (sim.schedule # NoSchedule /\ LimitOf(sim) >= 1) => Remaining(sim') = LimitOf(sim)
    /\ ( /\ last_op' = UnlockOp /\ is_locked(sim.lock_state)
         /\ sim.schedule # NoSchedule /\ LimitOf(sim) >= 1
         /\ sim.unlock_count >= LimitOf(sim)
         /\ sim.count_day < sim.now \div TicksPerDay
         /\ InUnion(sim, sim.now % TicksPerDay) )
       => /\ is_unlocked(sim'.lock_state)
          /\ events' = <<EV_UNLOCKED>>
          /\ CounterToday(sim') = 1
          /\ sim'.count_day = sim.now \div TicksPerDay

C6_DayRollover == [][C6_Step]_vars

\* The clock has just been moved to the day after the one whose quota was
\* used up, with the lock Locked inside a window.
C6_Witness ==
    /\ last_op.kind = "write" /\ last_op.uuid = CHAR_TIMESYNC
    /\ sim.schedule # NoSchedule
    /\ LimitOf(sim) >= 1
    /\ sim.unlock_count = LimitOf(sim)
    /\ sim.count_day + 1 = sim.now \div TicksPerDay
    /\ is_locked(sim.lock_state)
    /\ InUnion(sim, sim.now % TicksPerDay)
    /\ Remaining(sim) = LimitOf(sim)

(***************************************************************************)
(* C7 as stated.  For every event exactly one notification is attempted,    *)
(* in the order of the events, and no notification is sent that does not    *)
(* correspond to an event.                                                  *)
(***************************************************************************)
RECURSIVE AllEvents(_)
AllEvents(h) == IF Len(h) = 0 THEN << >> ELSE h[1].events \o AllEvents(Tail(h))

RECURSIVE AllNotifications(_)
AllNotifications(h) ==
    IF Len(h) = 0 THEN << >> ELSE h[1].notifications \o AllNotifications(Tail(h))

IsEventLog(n) == n.uuid = CHAR_EVENT

C7_Original ==
    /\ Len(AllNotifications(history)) = Len(AllEvents(history))
    /\ \A i \in 1..Len(history) :
          /\ Len(history[i].notifications) = Len(history[i].events)
          /\ \A k \in 1..Len(history[i].events) :
                history[i].notifications[k].data[1] = history[i].events[k]

(***************************************************************************)
(* C7 amended.  For every event the bridge attempts exactly one event-log   *)
(* notification carrying the event's code, these are sent in the order the  *)
(* events were emitted, and no event-log notification is sent without an    *)
(* event; every other notification sent is a lock-state notification.       *)
(***************************************************************************)
C7_EventLogInOrder ==
    /\ SelectSeq(AllNotifications(history), IsEventLog) =
          [i \in 1..Len(AllEvents(history)) |->
              [uuid |-> CHAR_EVENT, data |-> <<AllEvents(history)[i]>>]]
    /\ \A i \in 1..Len(AllNotifications(history)) :
          AllNotifications(history)[i].uuid \in {CHAR_EVENT, CHAR_LOCK_STATE}

\* Three requests were handled, each emitting an event: an Unlock denied,
\* a ForceUnlock and a Reset, in that order.
C7_Witness ==
    /\ AllEvents(history) = <<EV_UNLOCK_DENIED, EV_FORCE_UNLOCKED, EV_LOCKED>>
    /\ Len(AllNotifications(history)) > 3

(***************************************************************************)
(* C8.  Requests are handled one at a time in arrival order, each to        *)
(* completion: a step either queues an arriving request behind the others   *)
(* or handles the oldest one; and every lock-state notification sent for a  *)
(* lock command carries the state that this command produced.               *)
(***************************************************************************)
\* The lock state a lock command leaves, told from the state before it.
StateAfter(s, op) ==
    IF op = ResetOp THEN LOCKED
    ELSE IF op = ForceUnlockOp THEN UNLOCKED
    ELSE IF op = UnlockOp /\ is_locked(s.lock_state) /\ Permitted(s) THEN UNLOCKED
    ELSE s.lock_state

C8_Step ==
    \/ /\ history' = history
       /\ Len(inbox') = Len(inbox) + 1
       /\ SubSeq(inbox', 1, Len(inbox)) = inbox
       /\ sim' = sim
    \/ /\ inbox # << >>
       /\ inbox' = Tail(inbox)
       /\ Len(history') = Len(history) + 1
       /\ SubSeq(history', 1, Len(history)) = history
       /\ LET e == history'[Len(history')] IN
          /\ e.op = Head(inbox)
          /\ e.lock_state = sim'.lock_state
          /\ e.op.uuid = CHAR_LOCK_COMMAND =>
                /\ e.lock_state = StateAfter(sim, e.op)
                /\ e.notifications # << >>
                /\ \A i \in 1..Len(e.notifications) :
                      e.notifications[i].uuid = CHAR_LOCK_STATE
                      => e.notifications[i].data = <<StateAfter(sim, e.op)>>

LockStateRead == last_op = Op("read", CHAR_LOCK_STATE, << >>)

C9_Original ==
    LockStateRead =>
        read_result = <<IF is_locked(sim.lock_state) THEN 0 ELSE 1>>

(***************************************************************************)
(* C9 amended.  In every reachable state exactly one of is_locked and       *)
(* is_unlocked holds of the stored state; a read of the lock-state          *)
(* attribute, and the payload of every lock-state notification, is a single *)
(* byte equal to 1 exactly when is_locked holds and 0 exactly when          *)
(* is_unlocked holds.                                                       *)
(***************************************************************************)
LockByte(payload, state) ==
    /\ Len(payload) = 1
    /\ payload[1] = 1 <=> is_locked(state)
    /\ payload[1] = 0 <=> is_unlocked(state)

C9_LockStateByte ==
    /\ is_locked(sim.lock_state) # is_unlocked(sim.lock_state)
    /\ LockStateRead => raised = "none" /\ LockByte(read_result, sim.lock_state)
    /\ \A i \in 1..Len(notifications) :
          notifications[i].uuid = CHAR_LOCK_STATE
          => LockByte(notifications[i].data, sim.lock_state)

\* The lock state was read while the lock is Unlocked.
C9_Witness ==
    /\ LockStateRead
    /\ is_unlocked(sim.lock_state)
    /\ read_result = <<0>>

(***************************************************************************)
(* C10.  A read never fails: for every attribute and every reachable state  *)
(* it returns a payload, and for an unrecognized attribute the payload is   *)
(* the single byte 0.                                                       *)
(***************************************************************************)
C10_ReadNeverFails ==
    last_op.kind = "read"
    => /\ raised = "none"
       /\ Len(read_result) >= 1
       /\ last_op.uuid \notin {CHAR_LOCK_STATE, CHAR_BATTERY, CHAR_NEXT_UNLOCK,
                                CHAR_SCHEDULE}
          => read_result = <<0>>

(***************************************************************************)
(* C11.  A read of any attribute, wherever it falls between the writes,     *)
(* leaves lock state, battery level, schedule and unlock counter unchanged  *)
(* and sends no notification; and what it returns for the lock-state or     *)
(* the battery attribute is the value the last completed command or         *)
(* battery update left in the simulator.                                    *)
(***************************************************************************)
C11_Step ==
    last_op'.kind = "read"
    => /\ sim'.lock_state = sim.lock_state
       /\ sim'.battery = sim.battery
       /\ sim'.schedule = sim.schedule
       /\ sim'.unlock_count = sim.unlock_count
       /\ sim'.count_day = sim.count_day
       /\ granted' = granted
       /\ notifications' = << >>
       /\ events' = << >>
       /\ last_op'.uuid = CHAR_LOCK_STATE => read_result' = <<sim.lock_state>>
       /\ last_op'.uuid = CHAR_BATTERY => read_result' = <<sim.battery>>

C11_ReadIsPure == [][C11_Step]_vars

\* The battery attribute was read after a battery update to 10 and a
\* command that left the lock Unlocked, with a schedule in place.
C11_Witness ==
    /\ last_op = Op("read", CHAR_BATTERY, << >>)
    /\ read_result = <<10>>
    /\ sim.battery = 10
    /\ is_unlocked(sim.lock_state)
    /\ sim.schedule # NoSchedule
    /\ sim.unlock_count >= 1

(***************************************************************************)
(* C12.  classify is total on 0..100 and gives every percentage exactly one *)
(* tier, with inclusive ascending boundaries: at most 3 is emergency, 4..10 *)
(* critical, 11..20 low, 21 and above normal; and of two percentages the    *)
(* higher one never has the worse tier.                                     *)
(***************************************************************************)
Tiers == {"emergency", "critical", "low", "normal"}

TierTable(p) ==
    CASE p \in 0..3 -> "emergency"
      [] p \in 4..10 -> "critical"
      [] p \in 11..20 -> "low"
      [] p \in 21..MaxPercent -> "normal"

\* How good a tier is: the higher, the better.
Health(tier) ==
    CASE tier = "emergency" -> 0
      [] tier = "critical" -> 1
      [] tier = "low" -> 2
      [] tier = "normal" -> 3

C12_ClassifyTable ==
    output # << >>
    => /\ \A k \in 1..2 : output[k] \in Tiers /\ output[k] = TierTable(input[k])
       /\ Health(output[1]) <= Health(output[2])

\* The two sides of the lowest boundary were classified.
C12_Witness ==
    /\ input = <<3, 4>>
    /\ output = <<"emergency", "critical">>

(***************************************************************************)
(* C13.  Reset, from any state, leaves the lock Locked and emits Locked,    *)
(* and leaves the schedule, the battery level and today's unlock counter    *)
(* unchanged.                                                               *)
(***************************************************************************)
C13_Step ==
    last_op' = ResetOp
    => /\ is_locked(sim'.lock_state)
       /\ events' = <<EV_LOCKED>>
       /\ raised' = "none"
       /\ sim'.schedule = sim.schedule
       /\ sim'.battery = sim.battery
       /\ sim'.unlock_count = sim.unlock_count
       /\ sim'.count_day = sim.count_day
       /\ sim'.now = sim.now
       /\ CounterToday(sim') = CounterToday(sim)
       /\ granted' = granted

C13_ResetFrame == [][C13_Step]_vars

\* Reset was just handled with a schedule in place, an unlock counted today
\* and the battery at 10.
C13_Witness ==
    /\ last_op = ResetOp
    /\ is_locked(sim.lock_state)
    /\ events = <<EV_LOCKED>>
    /\ sim.schedule # NoSchedule
    /\ CounterToday(sim) >= 1
    /\ sim.battery = 10

(***************************************************************************)
(* C14.  On every battery update the level is stored and the tier is        *)
(* recomputed from it; a BatteryTierChanged event carrying the new tier is  *)
(* emitted if and only if the new tier differs from the tier of the level   *)
(* recorded before; an update inside the same tier emits no event; and a    *)
(* battery update never changes the lock state.                             *)
(***************************************************************************)
BatteryTierChanged(tier) == EV_BATTERY_BASE + TierIndex(tier)

C14_Step ==
    last_op'.kind = "battery"
    => LET level == last_op'.data[1]
           old == TierTable(sim.battery)
           new == TierTable(level)
       IN  /\ sim'.battery = level
           /\ new # old => events' = <<BatteryTierChanged(new)>>
           /\ new = old => events' = << >>
           /\ sim'.lock_state = sim.lock_state
           /\ raised' = "none"

C14_BatteryTierEvents == [][C14_Step]_vars

\* With the lock Unlocked, an update from one critical level to another has
\* just passed without an event.
C14_Witness ==
    /\ last_op = Op("battery", CHAR_BATTERY, <<5>>)
    /\ sim.battery = 5
    /\ events = << >>
    /\ is_unlocked(sim.lock_state)

(***************************************************************************)
(* C15.  Encoding the stored schedule as a schedule read does and decoding  *)
(* the result as a schedule write does yields an equivalent schedule: the   *)
(* same daily limit and the same permitted times of day; so a schedule      *)
(* read after a successful schedule write returns the schedule written.     *)
(***************************************************************************)
PermittedTimes(schedule) ==
    {tod \in 0..(TicksPerDay - 1) : InUnion([schedule |-> schedule], tod)}

Equivalent(a, b) ==
    /\ a.daily_limit.max_unlocks = b.daily_limit.max_unlocks
    /\ PermittedTimes(a) = PermittedTimes(b)

ScheduleRead == last_op = Op("read", CHAR_SCHEDULE, << >>)

C15_RoundTrip ==
    (ScheduleRead /\ sim.schedule # NoSchedule)
    => /\ raised = "none"
       /\ DecodableSchedule(read_result)
       /\ Equivalent(decode_schedule(read_result), sim.schedule)

(***************************************************************************)
(* C16.  For every schedule the device can hold, a read of the schedule     *)
(* attribute returns one length byte in 0..255 equal to the number of bytes *)
(* of serialized schedule that follow it, and the single byte 0 when no     *)
(* schedule is set; the length prefix is never wrong or unrepresentable,    *)
(* however long the schedule.                                               *)
(***************************************************************************)
C16_LengthPrefix ==
    ScheduleRead
    => /\ raised = "none"
       /\ Len(read_result) >= 1
       /\ InByteRange(read_result[1])
       /\ sim.schedule = NoSchedule => read_result = <<0>>
       /\ sim.schedule # NoSchedule =>
             /\ Tail(read_result) = json_dumps(sim.schedule)
             /\ read_result[1] = RawLen(Tail(read_result))

(***************************************************************************)
(* C17.  A SetSchedule command replaces the whole schedule, daily limit and *)
(* windows, with the written one; it leaves the lock state and today's      *)
(* unlock counter unchanged and emits no event and no notification; the     *)
(* unlocks already counted today still count against the new limit.         *)
(***************************************************************************)
ScheduleWritten(op) ==
    op.kind = "write" /\ op.uuid = CHAR_SCHEDULE /\ DecodableSchedule(op.data)

\* The payload is <<length, layout, limit, start1, end1, ...>>.
WrittenLimit(data) == data[3]
WrittenWindows(data) ==
    [i \in 1..((Len(data) - 3) \div 2) |->
        [start |-> data[2 * i + 2], end |-> data[2 * i + 3]]]

C17_Step ==
    ScheduleWritten(last_op')
    => /\ LimitOf(sim') = WrittenLimit(last_op'.data)
       /\ sim'.schedule.windows = WrittenWindows(last_op'.data)
       /\ sim'.lock_state = sim.lock_state
       /\ sim'.unlock_count = sim.unlock_count
       /\ sim'.count_day = sim.count_day
       /\ CounterToday(sim') = CounterToday(sim)
       /\ granted' = granted
       /\ events' = << >>
       /\ notifications' = << >>
       /\ raised' = "none"
       /\ Remaining(sim') =
             IF WrittenLimit(last_op'.data) > CounterToday(sim)
             THEN WrittenLimit(last_op'.data) - CounterToday(sim) ELSE 0

C17_SetSchedule == [][C17_Step]_vars

\* With two unlocks counted today and the lock Unlocked, a schedule of
\* limit one and one window has just replaced the schedule; nothing is
\* left of today's quota.
C17_Witness ==
    /\ ScheduleWritten(last_op)
    /\ LimitOf(sim) = 1
    /\ sim.schedule.windows = <<Midday>>
    /\ CounterToday(sim) = 2
    /\ Remaining(sim) = 0
    /\ is_unlocked(sim.lock_state)
    /\ notifications = << >>

(***************************************************************************)
(* C18.  is_within_window(now) is true exactly when the time of day of now  *)
(* lies in the union of the configured windows, and true at every time      *)
(* when no windows are configured; the result is the same for every list    *)
(* holding the same windows, whatever their order, repeats or overlaps.     *)
(***************************************************************************)
WindowsOf(ws) == {ws[i] : i \in 1..Len(ws)}

InSomeWindow(W, tod) == \E w \in W : w.start <= tod /\ tod < w.end

C18_WindowUnion ==
    output # << >>
    => LET ws == input[1]
           tod == input[2] % TicksPerDay
       IN  /\ ws = << >> => output[1] = TRUE
           /\ ws # << >> => output[1] = InSomeWindow(WindowsOf(ws), tod)
           /\ \A other \in ProbeLists :
                 WindowsOf(other) = WindowsOf(ws)
                 => is_within_window([schedule |-> ProbeSchedule(other)], input[2])
                    = output[1]

\* On the second day, at a time outside the first and the last window of an
\* unsorted list with a repeat and an overlap, the middle window permits.
C18_Witness ==
    /\ input = <<<<Midday, AlwaysOpen, Midday>>, TicksPerDay>>
    /\ output = <<TRUE>>

(***************************************************************************)
(* C19.  For each logic event the event-log notification carrying the       *)
(* event's code is sent first; a lock-state notification carrying the       *)
(* current lock state follows it if and only if the event is of the         *)
(* lock/unlock family (codes 0x01, 0x02, 0x09); a denial or a battery event *)
(* produces an event-log notification and no lock-state notification.       *)
(***************************************************************************)
LockFamily == {EV_UNLOCKED, EV_LOCKED, EV_FORCE_UNLOCKED}

\* What the events evs give rise to while the lock state is `state`.
RECURSIVE EventNotes(_, _)
EventNotes(evs, state) ==
    IF Len(evs) = 0 THEN << >>
    ELSE <<[uuid |-> CHAR_EVENT, data |-> <<evs[1]>>]>>
         \o (IF evs[1] \in LockFamily
             THEN <<[uuid |-> CHAR_LOCK_STATE, data |-> <<state>>]>>
             ELSE << >>)
         \o EventNotes(Tail(evs), state)

\* The notifications of a handled request that its events gave rise to:
\* all of them, but for the push that ends a lock-command write.
OfEvents(e) ==
    IF e.op.kind = "write" /\ e.op.uuid = CHAR_LOCK_COMMAND
    THEN SubSeq(e.notifications, 1, Len(e.notifications) - 1)
    ELSE e.notifications

C19_EventThenState ==
    \A i \in 1..Len(history) :
        /\ OfEvents(history[i]) = EventNotes(history[i].events, history[i].lock_state)
        /\ (history[i].events # << >> /\ history[i].events[1] \notin LockFamily)
           => /\ Len(OfEvents(history[i])) = Len(history[i].events)
              /\ \A k \in 1..Len(OfEvents(history[i])) :
                    OfEvents(history[i])[k].uuid = CHAR_EVENT

\* A denied Unlock, a ForceUnlock and a battery update that changed the tier
\* were handled, in that order.
C19_Witness ==
    /\ Len(history) = 3
    /\ history[1].events = <<EV_UNLOCK_DENIED>>
    /\ history[2].events = <<EV_FORCE_UNLOCKED>>
    /\ Len(OfEvents(history[2])) = 2
    /\ history[3].op.kind = "battery"
    /\ Len(history[3].events) = 1
    /\ Len(history[3].notifications) = 1

(***************************************************************************)
(* C20.  For every lock-command write with a non-empty payload the wrapper  *)
(* first forwards the payload to the simulator and only afterwards sends    *)
(* one lock-state notification, whose payload is the simulator's lock state *)
(* after the command was applied, never the state before it; this holds    *)
(* for every command byte, a denied and a no-op Unlock included.            *)
(***************************************************************************)
\* The lock state before the i-th handled request.
StateBefore(i) == IF i = 1 THEN LOCKED ELSE history[i - 1].lock_state

\* The lock state the i-th handled request must leave, told from its
\* command byte and the events the simulator emitted for it.
StateLeft(i) ==
    LET e == history[i] IN
    IF e.op.data = <<CMD_RESET>> THEN LOCKED
    ELSE IF e.op.data = <<CMD_FORCE_UNLOCK>> THEN UNLOCKED
    ELSE IF e.op.data = <<CMD_UNLOCK>> /\ e.events = <<EV_UNLOCKED>> THEN UNLOCKED
    ELSE StateBefore(i)

C20_PushAfterForward ==
    \A i \in 1..Len(history) :
        LET e == history[i] IN
        (e.op.kind = "write" /\ e.op.uuid = CHAR_LOCK_COMMAND /\ Len(e.op.data) > 0)
        => /\ e.lock_state = StateLeft(i)
           /\ e.notifications =
                 EventNotes(e.events, StateLeft(i))
                 \o <<[uuid |-> CHAR_LOCK_STATE, data |-> <<StateLeft(i)>>]>>
           /\ StateLeft(i) # StateBefore(i)
              => e.notifications[Len(e.notifications)].data # <<StateBefore(i)>>

\* A denied Unlock, a ForceUnlock and a no-op Unlock were handled in that
\* order; their pushes carry Locked, Unlocked and Unlocked.
C20_Witness ==
    /\ Len(history) = 3
    /\ history[1].op = UnlockOp /\ history[1].events = <<EV_UNLOCK_DENIED>>
    /\ history[1].notifications[2] = [uuid |-> CHAR_LOCK_STATE, data |-> <<LOCKED>>]
    /\ history[2].op = ForceUnlockOp
    /\ history[2].notifications[3] = [uuid |-> CHAR_LOCK_STATE, data |-> <<UNLOCKED>>]
    /\ history[3].op = UnlockOp /\ history[3].events = << >>
    /\ history[3].notifications = <<[uuid |-> CHAR_LOCK_STATE, data |-> <<UNLOCKED>>]>>

====
